---- MODULE Spec2Model ----
(***************************************************************************)
(* Airport ground-movement graph store (airport_graph_agent).              *)
(*                                                                         *)
(* The store is a Neo4j property graph: nodes carry one label and a        *)
(* property map, CONNECTS relationships join two stored nodes.  The model  *)
(* keeps Neo4j's node identity (nid) apart from the "id" property, because *)
(* the queries of schema.py match nodes on the property.                   *)
(***************************************************************************)
EXTENDS Integers, Sequences, FiniteSets, Bags, TLC

VARIABLES
    nodes,        \* stored nodes: set of [nid, label, props]
    edges,        \* stored CONNECTS relationships: bag of edge records
    constraints,  \* labels that carry an id-uniqueness constraint
    schema_done,  \* init_schema has returned without raising
    res,          \* what the last operation returned to its caller
    validation    \* what a validate_graph_structure in progress has read

vars == <<nodes, edges, constraints, schema_done, res, validation>>

store == <<nodes, edges>>

----------------------------------------------------------------------------
(* Bounds of the model *)

MaxNodes == 2
MaxEdges == 1
PathMaxNodes == 3
PathMaxEdges == 3
ValMaxNodes == 5
ValMaxEdges == 5
BidiMaxEdges == 3
ConcMaxNodes == 3
ConcMaxEdges == 2

----------------------------------------------------------------------------
(* schema.py: enumerations *)

NodeType ==
    [ RUNWAY_END |-> "RunwayEnd",
      TAXIWAY_INTERSECTION |-> "TaxiwayIntersection",
      HOLD_SHORT |-> "HoldShort",
      FBO |-> "FBO",
      TERMINAL |-> "Terminal",
      RAMP |-> "Ramp" ]

Labels == { NodeType[k] : k \in DOMAIN NodeType }

Direction == { "N", "NE", "E", "SE", "S", "SW", "W", "NW" }

\* a slip in the table: NW answered with SW
opposite_directions_slip ==
    [ N |-> "S", NE |-> "SW", E |-> "W", SE |-> "NW",
      S |-> "N", SW |-> "NE", W |-> "E", NW |-> "SW" ]

opposite_directions ==
    [ N |-> "S", NE |-> "SW", E |-> "W", SE |-> "NW",
      S |-> "N", SW |-> "NE", W |-> "E", NW |-> "SE" ]

----------------------------------------------------------------------------
(* schema.py: node classes and their Cypher parameters *)

Node(id, airport, name, node_type, x, y) ==
    [ id |-> id, airport |-> airport, name |-> name,
      node_type |-> node_type, x |-> x, y |-> y ]

RunwayEnd(id, airport, name, x, y, heading, runway_id) ==
    [ id |-> id, airport |-> airport, name |-> name,
      node_type |-> NodeType.RUNWAY_END, x |-> x, y |-> y,
      heading |-> heading, runway_id |-> runway_id ]

TaxiwayIntersection(id, airport, name, x, y, taxiways) ==
    [ id |-> id, airport |-> airport, name |-> name,
      node_type |-> NodeType.TAXIWAY_INTERSECTION, x |-> x, y |-> y,
      taxiways |-> taxiways ]

HoldShort(id, airport, name, x, y, runway, taxiway) ==
    [ id |-> id, airport |-> airport, name |-> name,
      node_type |-> NodeType.HOLD_SHORT, x |-> x, y |-> y,
      runway |-> runway, taxiway |-> taxiway ]

FBO(id, airport, name, x, y) == Node(id, airport, name, NodeType.FBO, x, y)

Terminal(id, airport, name, x, y) ==
    Node(id, airport, name, NodeType.TERMINAL, x, y)

Ramp(id, airport, name, x, y) == Node(id, airport, name, NodeType.RAMP, x, y)

get_node_to_dict(node) ==
    IF node.node_type = NodeType.RUNWAY_END
    THEN [ id |-> node.id, airport |-> node.airport, name |-> node.name,
           x |-> node.x, y |-> node.y,
           heading |-> node.heading, runway_id |-> node.runway_id ]
    ELSE IF node.node_type = NodeType.TAXIWAY_INTERSECTION
    THEN [ id |-> node.id, airport |-> node.airport, name |-> node.name,
           x |-> node.x, y |-> node.y, taxiways |-> node.taxiways ]
    ELSE IF node.node_type = NodeType.HOLD_SHORT
    THEN [ id |-> node.id, airport |-> node.airport, name |-> node.name,
           x |-> node.x, y |-> node.y,
           runway |-> node.runway, taxiway |-> node.taxiway ]
    ELSE [ id |-> node.id, airport |-> node.airport, name |-> node.name,
           x |-> node.x, y |-> node.y ]

Connection(from_id, to_id, via, distance, direction, requires_hold) ==
    [ from_id |-> from_id, to_id |-> to_id, via |-> via,
      distance |-> distance, direction |-> direction,
      requires_hold |-> requires_hold ]

get_connection_to_dict(conn) ==
    [ from_id |-> conn.from_id, to_id |-> conn.to_id, via |-> conn.via,
      distance |-> conn.distance, direction |-> conn.direction,
      requires_hold |-> conn.requires_hold ]

----------------------------------------------------------------------------
(* schema.py: SCHEMA_CONSTRAINTS, as str.split(";") cuts the text.  Each   *)
(* chunk is the sequence of its non-blank lines after str.strip().         *)

CommentLine == [ kind |-> "comment", label |-> "" ]

ConstraintLine(label) == [ kind |-> "constraint", label |-> label ]

SCHEMA_CONSTRAINTS ==
    << << CommentLine, ConstraintLine("RunwayEnd") >>,
       << ConstraintLine("TaxiwayIntersection") >>,
       << ConstraintLine("HoldShort") >>,
       << ConstraintLine("FBO") >>,
       << ConstraintLine("Terminal") >>,
       << ConstraintLine("Ramp") >>,
       << >> >>

----------------------------------------------------------------------------
(* Neo4j: node identity and uniqueness constraints *)

NewNid(ns) ==
    CHOOSE i \in 1..(Cardinality(ns) + 1) :
        /\ i \notin { n.nid : n \in ns }
        /\ \A j \in 1..(i - 1) : j \in { n.nid : n \in ns }

HasDuplicateIds(label, ns) ==
    \E a, b \in ns :
        /\ a.nid # b.nid
        /\ a.label = label /\ b.label = label
        /\ a.props.id = b.props.id

ViolatesConstraint(label, params, ns, cs) ==
    /\ label \in cs
    /\ \E n \in ns : n.label = label /\ n.props.id = params.id

----------------------------------------------------------------------------
(* db.py: init_schema *)

\* line and not line.startswith("//"), for a stripped chunk
IsExecuted(chunk) == Len(chunk) > 0 /\ chunk[1].kind # "comment"

\* session.run(line): CREATE CONSTRAINT ... IF NOT EXISTS for the chunk's
\* statements; Neo4j refuses a constraint that the stored data violates
RunConstraint(chunk, cs, ns) ==
    LET labels == { chunk[i].label :
                      i \in { j \in 1..Len(chunk) : chunk[j].kind = "constraint" } }
        fresh  == labels \ cs
    IN  IF \E l \in fresh : HasDuplicateIds(l, ns)
        THEN [ constraints |-> cs, raised |-> TRUE ]
        ELSE [ constraints |-> cs \cup fresh, raised |-> FALSE ]

RECURSIVE init_schema_loop(_, _, _)
init_schema_loop(i, cs, ns) ==
    IF i > Len(SCHEMA_CONSTRAINTS)
    THEN [ constraints |-> cs, raised |-> FALSE ]
    ELSE IF ~IsExecuted(SCHEMA_CONSTRAINTS[i])
         THEN init_schema_loop(i + 1, cs, ns)
         ELSE LET r == RunConstraint(SCHEMA_CONSTRAINTS[i], cs, ns)
              IN  IF r.raised THEN r
                  ELSE init_schema_loop(i + 1, r.constraints, ns)

init_schema ==
    LET r == init_schema_loop(1, constraints, nodes)
    IN  /\ constraints' = r.constraints
        /\ schema_done' = (schema_done \/ ~r.raised)
        /\ res' = [ op |-> "init_schema", raised |-> r.raised ]
        /\ UNCHANGED <<nodes, edges, validation>>

----------------------------------------------------------------------------
(* db.py: clear_database, with CLEAR_AIRPORT_QUERY.  airport = "NULL"      *)
(* stands for None.                                                        *)

\* a DELETE without DETACH that leaves the relationships behind
CLEAR_AIRPORT_QUERY_no_detach(airport, ns, es) ==
    LET gone == { n \in ns : airport = "NULL" \/ n.props.airport = airport }
    IN  [ nodes |-> ns \ gone, edges |-> es ]

CLEAR_AIRPORT_QUERY(airport, ns, es) ==
    LET gone == { n \in ns : airport = "NULL" \/ n.props.airport = airport }
        kept == { e \in DOMAIN es :
                    /\ e.from \notin { n.nid : n \in gone }
                    /\ e.to \notin { n.nid : n \in gone } }
    IN  [ nodes |-> ns \ gone, edges |-> [ e \in kept |-> es[e] ] ]

\* a clear that deletes the nodes and only the edges that leave them
clear_database_outgoing(airport) ==
    LET gone == { n \in nodes : airport = "NULL" \/ n.props.airport = airport }
        kept == { e \in DOMAIN edges : e.from \notin { n.nid : n \in gone } }
    IN  /\ nodes' = nodes \ gone
        /\ edges' = [ e \in kept |-> edges[e] ]
        /\ res' = [ op |-> "clear_database", airport |-> airport ]
        /\ UNCHANGED <<constraints, schema_done, validation>>

clear_database(airport) ==
    LET r == CLEAR_AIRPORT_QUERY(airport, nodes, edges)
    IN  /\ nodes' = r.nodes
        /\ edges' = r.edges
        /\ res' = [ op |-> "clear_database", airport |-> airport ]
        /\ UNCHANGED <<constraints, schema_done, validation>>

----------------------------------------------------------------------------
(* db.py: create_node, with CREATE_NODE_QUERIES *)

\* a MERGE ... SET in place of the CREATE: a node of the label that bears
\* the id takes the new properties
CREATE_NODE_QUERIES_replace(label, params, ns, cs) ==
    LET same == { n \in ns : n.label = label /\ n.props.id = params.id }
    IN  IF same # {}
        THEN [ raised |-> FALSE,
               nodes |-> (ns \ same)
                           \cup { [ nid |-> n.nid, label |-> label,
                                    props |-> params ] : n \in same },
               record |-> params ]
        ELSE LET n == [ nid |-> NewNid(ns), label |-> label, props |-> params ]
             IN  [ raised |-> FALSE, nodes |-> ns \cup {n}, record |-> params ]

\* CREATE (n:<Label> {...}) RETURN n: the node is stored with exactly the
\* parameters of its type's query, unless a uniqueness constraint refuses it
CREATE_NODE_QUERIES(label, params, ns, cs) ==
    IF ViolatesConstraint(label, params, ns, cs)
    THEN [ raised |-> TRUE, nodes |-> ns, record |-> << >> ]
    ELSE LET n == [ nid |-> NewNid(ns), label |-> label, props |-> params ]
         IN  [ raised |-> FALSE, nodes |-> ns \cup {n}, record |-> params ]

db_create_node(node, ns, cs) ==
    CREATE_NODE_QUERIES(node.node_type, get_node_to_dict(node), ns, cs)

----------------------------------------------------------------------------
(* tools/graph_tools.py: create_node *)

Has(args, keys) == keys \subseteq DOMAIN args

ErrorResult(op, args, text) ==
    [ op |-> op, args |-> args, is_error |-> TRUE, text |-> text ]

OkResult(op, args, text) ==
    [ op |-> op, args |-> args, is_error |-> FALSE, text |-> text ]

\* a chain that asks for one of heading and runway_id and fills in the other
build_node_defaulting(args) ==
    LET t == args.node_type IN
    IF t = "runway_end"
    THEN IF ~Has(args, {"heading"}) /\ ~Has(args, {"runway_id"})
         THEN [ early |-> TRUE, text |-> "Error: runway_end requires" ]
         ELSE [ early |-> FALSE,
                node |-> RunwayEnd(args.id, args.airport, args.name, args.x,
                                   args.y,
                                   IF Has(args, {"heading"})
                                   THEN args.heading ELSE 0,
                                   IF Has(args, {"runway_id"})
                                   THEN args.runway_id ELSE "") ]
    ELSE IF t = "taxiway_intersection"
    THEN IF ~Has(args, {"taxiways"})
         THEN [ early |-> TRUE, text |-> "Error: taxiway_intersection requires" ]
         ELSE [ early |-> FALSE,
                node |-> TaxiwayIntersection(args.id, args.airport, args.name,
                                             args.x, args.y, args.taxiways) ]
    ELSE IF t = "hold_short"
    THEN IF ~Has(args, {"runway"}) \/ ~Has(args, {"taxiway"})
         THEN [ early |-> TRUE, text |-> "Error: hold_short requires" ]
         ELSE [ early |-> FALSE,
                node |-> HoldShort(args.id, args.airport, args.name, args.x,
                                   args.y, args.runway, args.taxiway) ]
    ELSE IF t = "fbo"
    THEN [ early |-> FALSE,
           node |-> FBO(args.id, args.airport, args.name, args.x, args.y) ]
    ELSE IF t = "terminal"
    THEN [ early |-> FALSE,
           node |-> Terminal(args.id, args.airport, args.name, args.x, args.y) ]
    ELSE IF t = "ramp"
    THEN [ early |-> FALSE,
           node |-> Ramp(args.id, args.airport, args.name, args.x, args.y) ]
    ELSE [ early |-> TRUE, text |-> "Error: Unknown node type" ]

\* the node object built by the if/elif chain, or the early error return
build_node(args) ==
    LET t == args.node_type IN
    IF t = "runway_end"
    THEN IF ~Has(args, {"heading"}) \/ ~Has(args, {"runway_id"})
         THEN [ early |-> TRUE, text |-> "Error: runway_end requires" ]
         ELSE [ early |-> FALSE,
                node |-> RunwayEnd(args.id, args.airport, args.name, args.x,
                                   args.y, args.heading, args.runway_id) ]
    ELSE IF t = "taxiway_intersection"
    THEN IF ~Has(args, {"taxiways"})
         THEN [ early |-> TRUE, text |-> "Error: taxiway_intersection requires" ]
         ELSE [ early |-> FALSE,
                node |-> TaxiwayIntersection(args.id, args.airport, args.name,
                                             args.x, args.y, args.taxiways) ]
    ELSE IF t = "hold_short"
    THEN IF ~Has(args, {"runway"}) \/ ~Has(args, {"taxiway"})
         THEN [ early |-> TRUE, text |-> "Error: hold_short requires" ]
         ELSE [ early |-> FALSE,
                node |-> HoldShort(args.id, args.airport, args.name, args.x,
                                   args.y, args.runway, args.taxiway) ]
    ELSE IF t = "fbo"
    THEN [ early |-> FALSE,
           node |-> FBO(args.id, args.airport, args.name, args.x, args.y) ]
    ELSE IF t = "terminal"
    THEN [ early |-> FALSE,
           node |-> Terminal(args.id, args.airport, args.name, args.x, args.y) ]
    ELSE IF t = "ramp"
    THEN [ early |-> FALSE,
           node |-> Ramp(args.id, args.airport, args.name, args.x, args.y) ]
    ELSE [ early |-> TRUE, text |-> "Error: Unknown node type" ]

create_node(args) ==
    LET b == build_node(args) IN
    /\ IF b.early
       THEN /\ res' = ErrorResult("create_node", args, b.text)
            /\ nodes' = nodes
       ELSE LET r == db_create_node(b.node, nodes, constraints) IN
            /\ nodes' = r.nodes
            /\ res' = IF r.raised
                      THEN ErrorResult("create_node", args, "Error creating node")
                      ELSE OkResult("create_node", args, "Created")
    /\ UNCHANGED <<edges, constraints, schema_done, validation>>

----------------------------------------------------------------------------
(* db.py: create_connection, with CREATE_CONNECTION_QUERY *)

\* a MERGE in place of the CREATE: a relationship that is there is not made again
CREATE_CONNECTION_QUERY_merge(params, ns, es) ==
    LET pairs == { p \in ns \X ns :
                     /\ p[1].props.id = params.from_id
                     /\ p[2].props.id = params.to_id }
        made  == { [ from |-> p[1].nid, to |-> p[2].nid,
                     via |-> params.via, distance |-> params.distance,
                     direction |-> params.direction,
                     requires_hold |-> params.requires_hold ] : p \in pairs }
    IN  [ edges |-> es (+) SetToBag(made \ DOMAIN es),
          rows |-> Cardinality(pairs) ]

\* MATCH (a), (b) WHERE a.id = $from_id AND b.id = $to_id CREATE (a)-[r]->(b):
\* one relationship, and one returned row, per matched pair of nodes
CREATE_CONNECTION_QUERY(params, ns, es) ==
    LET pairs == { p \in ns \X ns :
                     /\ p[1].props.id = params.from_id
                     /\ p[2].props.id = params.to_id }
        made  == { [ from |-> p[1].nid, to |-> p[2].nid,
                     via |-> params.via, distance |-> params.distance,
                     direction |-> params.direction,
                     requires_hold |-> params.requires_hold ] : p \in pairs }
    IN  [ edges |-> es (+) SetToBag(made), rows |-> Cardinality(pairs) ]

\* result.single() is not None
db_create_connection(connection, ns, es) ==
    LET r == CREATE_CONNECTION_QUERY(get_connection_to_dict(connection), ns, es)
    IN  [ edges |-> r.edges, returned |-> (r.rows > 0) ]

----------------------------------------------------------------------------
(* tools/graph_tools.py: create_connection *)

\* a get that answers False for a missing key, whatever the default
Get_no_default(args, key, default) ==
    IF key \in DOMAIN args THEN args[key] ELSE FALSE

\* args.get(key, default)
Get(args, key, default) == IF key \in DOMAIN args THEN args[key] ELSE default

create_connection(args) ==
    LET from_id       == args.from_id
        to_id         == args.to_id
        via           == args.via
        distance      == args.distance
        direction_str == args.direction
        requires_hold == Get(args, "requires_hold", FALSE)
        bidirectional == Get(args, "bidirectional", TRUE)
    IN
    /\ IF direction_str \notin Direction
       THEN \* Direction[direction_str] raises KeyError
            /\ edges' = edges
            /\ res' = ErrorResult("create_connection", args,
                                  "Error creating connection")
       ELSE LET conn == Connection(from_id, to_id, via, distance,
                                   direction_str, requires_hold)
                fwd  == db_create_connection(conn, nodes, edges)
                reverse_conn ==
                        Connection(to_id, from_id, via, distance,
                                   opposite_directions[direction_str],
                                   requires_hold)
                rev  == db_create_connection(reverse_conn, nodes, fwd.edges)
            IN  IF bidirectional
                THEN /\ edges' = rev.edges
                     /\ res' = OkResult("create_connection", args,
                                        "Created connection (bidirectional)")
                ELSE /\ edges' = fwd.edges
                     /\ res' = OkResult("create_connection", args,
                                        "Created connection")
    /\ UNCHANGED <<nodes, constraints, schema_done, validation>>

\* the call when the store fails: session.run raises in the failing-th
\* db_create_connection (1 or 2), whose own auto-commit transaction then
\* stores nothing; each db_create_connection opens a session of its own, so
\* what an earlier one has written stays
create_connection_raising(args, failing) ==
    LET from_id       == args.from_id
        to_id         == args.to_id
        via           == args.via
        distance      == args.distance
        direction_str == args.direction
        requires_hold == Get(args, "requires_hold", FALSE)
        bidirectional == Get(args, "bidirectional", TRUE)
    IN
    /\ IF direction_str \notin Direction
       THEN /\ edges' = edges
            /\ res' = ErrorResult("create_connection", args,
                                  "Error creating connection")
       ELSE LET conn == Connection(from_id, to_id, via, distance,
                                   direction_str, requires_hold)
                fwd  == db_create_connection(conn, nodes, edges)
            IN  IF failing = 1
                THEN /\ edges' = edges
                     /\ res' = ErrorResult("create_connection", args,
                                           "Error creating connection")
                ELSE IF bidirectional
                THEN /\ edges' = fwd.edges
                     /\ res' = ErrorResult("create_connection", args,
                                           "Error creating connection")
                ELSE /\ edges' = fwd.edges
                     /\ res' = OkResult("create_connection", args,
                                        "Created connection")
    /\ UNCHANGED <<nodes, constraints, schema_done, validation>>

----------------------------------------------------------------------------
(* agent.py: process_diagram, up to the start of the agent.  reachable is  *)
(* what verify_connection answers, image_exists what path.exists()         *)
(* answers.                                                                *)

Raised(airport, clear_existing, exception) ==
    [ op |-> "process_diagram", airport |-> airport,
      clear_existing |-> clear_existing, raised |-> exception ]

process_diagram(image_exists, airport, clear_existing, reachable) ==
    IF ~reachable
    THEN /\ res' = Raised(airport, clear_existing, "RuntimeError")
         /\ UNCHANGED <<nodes, edges, constraints, schema_done, validation>>
    ELSE LET schema == init_schema_loop(1, constraints, nodes) IN
         IF schema.raised
         THEN /\ constraints' = schema.constraints
              /\ res' = Raised(airport, clear_existing, "ClientError")
              /\ UNCHANGED <<nodes, edges, schema_done, validation>>
         ELSE LET cleared == IF clear_existing
                             THEN CLEAR_AIRPORT_QUERY(airport, nodes, edges)
                             ELSE [ nodes |-> nodes, edges |-> edges ]
              IN  /\ constraints' = schema.constraints
                  /\ schema_done' = TRUE
                  /\ nodes' = cleared.nodes
                  /\ edges' = cleared.edges
                  /\ res' = Raised(airport, clear_existing,
                                   IF image_exists THEN "none"
                                   ELSE "FileNotFoundError")
                  /\ UNCHANGED validation

----------------------------------------------------------------------------
(* db.py: get_all_nodes and get_all_connections *)

\* the strings of the model in Neo4j's ascending string order
Collation ==
    << "09", "18", "27", "27 at A", "A", "B", "FBO", "HoldShort", "KAAA",
       "KBBB", "KTST", "Main Ramp", "Ramp", "RunwayEnd", "TaxiwayIntersection",
       "Terminal" >>

Rank(s) == CHOOSE i \in 1..Len(Collation) : Collation[i] = s

\* ORDER BY airport, type, name
RowLeq(r1, r2) ==
    \/ Rank(r1.airport) < Rank(r2.airport)
    \/ /\ r1.airport = r2.airport
       /\ \/ Rank(r1.type) < Rank(r2.type)
          \/ /\ r1.type = r2.type
             /\ Rank(r1.name) <= Rank(r2.name)

NodeRow(n) ==
    [ id |-> n.props.id, airport |-> n.props.airport, name |-> n.props.name,
      type |-> n.label, x |-> n.props.x, y |-> n.props.y ]

\* the orders of the nodes of S that respect ORDER BY (ties in any order)
RECURSIVE Orderings(_)
Orderings(S) ==
    IF S = {} THEN { << >> }
    ELSE UNION { { << n >> \o rest : rest \in Orderings(S \ {n}) } :
                 n \in { m \in S : \A o \in S : RowLeq(NodeRow(m), NodeRow(o)) } }

\* the listings GET_ALL_NODES_QUERY may return: one row per matching node,
\* in an order that respects ORDER BY
GET_ALL_NODES_QUERY(airport, ns) ==
    LET match == { n \in ns :
                     /\ n.label \in Labels
                     /\ (airport = "NULL" \/ n.props.airport = airport) }
    IN  { [ i \in 1..Len(f) |-> NodeRow(f[i]) ] : f \in Orderings(match) }

get_all_nodes(airport) ==
    /\ \E listing \in GET_ALL_NODES_QUERY(airport, nodes) :
           res' = [ op |-> "get_all_nodes", airport |-> airport,
                    rows |-> listing ]
    /\ UNCHANGED <<nodes, edges, constraints, schema_done, validation>>

NodeOf(nid, ns) == CHOOSE n \in ns : n.nid = nid

ConnRow(e, ns) ==
    [ from_id |-> NodeOf(e.from, ns).props.id,
      to_id |-> NodeOf(e.to, ns).props.id,
      via |-> e.via, distance |-> e.distance, direction |-> e.direction,
      requires_hold |-> e.requires_hold ]

\* MATCH (a)-[r:CONNECTS]->(b) WHERE $airport IS NULL OR a.airport = $airport:
\* one row per matching relationship, in no particular order (a bag of rows)
GET_ALL_CONNECTIONS_QUERY(airport, ns, es) ==
    LET match == { e \in DOMAIN es :
                     airport = "NULL"
                     \/ NodeOf(e.from, ns).props.airport = airport }
        rows  == { ConnRow(e, ns) : e \in match }
    IN  [ r \in rows |->
            LET same == { e \in match : ConnRow(e, ns) = r }
                RECURSIVE Sum(_)
                Sum(S) == IF S = {} THEN 0
                          ELSE LET e == CHOOSE x \in S : TRUE
                               IN  es[e] + Sum(S \ {e})
            IN  Sum(same) ]

get_all_connections(airport) ==
    /\ res' = [ op |-> "get_all_connections", airport |-> airport,
                rows |-> GET_ALL_CONNECTIONS_QUERY(airport, nodes, edges) ]
    /\ UNCHANGED <<nodes, edges, constraints, schema_done, validation>>

----------------------------------------------------------------------------
(* db.py: find_path, with FIND_PATH_QUERY *)

\* (u)-[:CONNECTS]-(v): a relationship is traversed from either end
Steps(u, es) ==
    { [ rel |-> e, to |-> IF e.from = u THEN e.to ELSE e.from ] :
        e \in { x \in DOMAIN es : x.from = u \/ x.to = u } }

Last(sq) == sq[Len(sq)]

Range(sq) == { sq[i] : i \in 1..Len(sq) }

\* the paths of k relationships that leave s and repeat no node
RECURSIVE PathsFrom(_, _, _)
PathsFrom(s, k, es) ==
    IF k = 0
    THEN { [ path_nodes |-> << s >>, rels |-> << >> ] }
    ELSE UNION { { [ path_nodes |-> Append(p.path_nodes, st.to),
                     rels |-> Append(p.rels, st.rel) ] :
                     st \in { t \in Steps(Last(p.path_nodes), es) :
                                t.to \notin Range(p.path_nodes) } } :
                 p \in PathsFrom(s, k - 1, es) }

PathsBetween(s, e, k, es) ==
    { p \in PathsFrom(s, k, es) : Last(p.path_nodes) = e }

\* a search that returns the longest simple path instead of the shortest
shortestPath_longest(s, e, ns, es) ==
    LET lens == { k \in 1..(Cardinality(ns) - 1) :
                    PathsBetween(s, e, k, es) # {} }
    IN  IF lens = {} THEN {}
        ELSE PathsBetween(s, e,
                          CHOOSE k \in lens : \A j \in lens : k >= j, es)

\* shortestPath((start)-[:CONNECTS*]-(end)) for two different nodes: the
\* paths of least length, of which Neo4j returns one
shortestPath(s, e, ns, es) ==
    LET lens == { k \in 1..(Cardinality(ns) - 1) :
                    PathsBetween(s, e, k, es) # {} }
    IN  IF lens = {} THEN {}
        ELSE PathsBetween(s, e,
                          CHOOSE k \in lens : \A j \in lens : k <= j, es)

\* a projection that lists the hold flags from the far end of the path
PathRecord_holds_reversed(p, ns) ==
    [ path       |-> p,
      node_names |-> [ i \in 1..Len(p.path_nodes) |->
                         NodeOf(p.path_nodes[i], ns).props.name ],
      via_list   |-> [ i \in 1..Len(p.rels) |-> p.rels[i].via ],
      holds      |-> [ i \in 1..Len(p.rels) |->
                         p.rels[Len(p.rels) + 1 - i].requires_hold ] ]

PathRecord(p, ns) ==
    [ path       |-> p,
      node_names |-> [ i \in 1..Len(p.path_nodes) |->
                         NodeOf(p.path_nodes[i], ns).props.name ],
      via_list   |-> [ i \in 1..Len(p.rels) |-> p.rels[i].via ],
      holds      |-> [ i \in 1..Len(p.rels) |-> p.rels[i].requires_hold ] ]

\* The rows the query can produce: one per matched (start, end) pair that a
\* path joins.  A pair made of one and the same node makes shortestPath
\* raise when cypher.forbid_shortestpath_common_nodes is set (the default)
\* and yields no row otherwise.
FIND_PATH_QUERY(airport, start_id, end_id, ns, es, forbid_common) ==
    LET starts == { n \in ns : n.props.id = start_id
                               /\ n.props.airport = airport }
        ends   == { n \in ns : n.props.id = end_id
                               /\ n.props.airport = airport }
    IN  [ raised |-> forbid_common /\ (starts \cap ends) # {},
          rows   |-> UNION { { PathRecord(p, ns) :
                                 p \in shortestPath(pr[1].nid, pr[2].nid, ns, es) } :
                             pr \in { q \in starts \X ends : q[1] # q[2] } } ]

NoPath == [ node_names |-> << >>, via_list |-> << >>, holds |-> << >> ]

\* a find_path that subscripts the record without testing it for None
find_path_unguarded(airport, start_id, end_id, ns, es, forbid_common) ==
    LET q == FIND_PATH_QUERY(airport, start_id, end_id, ns, es, forbid_common)
    IN  IF q.raised \/ q.rows = {}
        THEN { [ raised |-> TRUE, found |-> FALSE, record |-> NoPath,
                 path |-> [ path_nodes |-> << >>, rels |-> << >> ] ] }
        ELSE { [ raised |-> FALSE, found |-> TRUE,
                 record |-> [ node_names |-> r.node_names,
                              via_list |-> r.via_list, holds |-> r.holds ],
                 path |-> r.path ] : r \in q.rows }

\* the outcomes of find_path: result.single() is None without rows and the
\* first row otherwise; the dict keeps three columns of the record
find_path(airport, start_id, end_id, ns, es, forbid_common) ==
    LET q == FIND_PATH_QUERY(airport, start_id, end_id, ns, es, forbid_common)
    IN  IF q.raised
        THEN { [ raised |-> TRUE, found |-> FALSE, record |-> NoPath,
                 path |-> [ path_nodes |-> << >>, rels |-> << >> ] ] }
        ELSE IF q.rows = {}
        THEN { [ raised |-> FALSE, found |-> FALSE, record |-> NoPath,
                 path |-> [ path_nodes |-> << >>, rels |-> << >> ] ] }
        ELSE { [ raised |-> FALSE, found |-> TRUE,
                 record |-> [ node_names |-> r.node_names,
                              via_list |-> r.via_list, holds |-> r.holds ],
                 path |-> r.path ] : r \in q.rows }

----------------------------------------------------------------------------
(* tools/validation_tools.py: check_path_exists *)

\* a count of all the flags, set or not
CountHolds_all(holds) == Len(holds)

\* sum(1 for h in path["holds"] if h)
CountHolds(holds) == Cardinality({ i \in 1..Len(holds) : holds[i] })

check_path_exists(args) ==
    /\ \E forbid_common \in BOOLEAN :
       \E r \in find_path(args.airport, args.from_id, args.to_id,
                          nodes, edges, forbid_common) :
           res' = [ op |-> "check_path_exists", args |-> args,
                    is_error |-> r.raised,
                    text |-> IF r.raised THEN "Error checking path"
                             ELSE IF r.found THEN "Path found"
                             ELSE "No path found",
                    found |-> r.found,
                    record |-> r.record,
                    holds |-> CountHolds(r.record.holds),
                    path |-> r.path ]
    /\ UNCHANGED <<nodes, edges, constraints, schema_done, validation>>

----------------------------------------------------------------------------
(* db.py: get_graph_stats.  "if airport:" takes None for no filter.        *)

\* a count that keeps the labels without nodes in nodes_by_type
get_graph_stats_keeps_zero(airport, ns, es) ==
    LET inscope(n) == airport = "NULL" \/ n.props.airport = airport
        count(label) == Cardinality({ n \in ns : n.label = label /\ inscope(n) })
    IN  [ total_nodes |-> Cardinality({ n \in ns : inscope(n) }),
          total_connections |->
              BagCardinality([ e \in { x \in DOMAIN es : inscope(NodeOf(x.from, ns)) }
                               |-> es[e] ]),
          nodes_by_type |-> [ l \in Labels |-> count(l) ] ]

get_graph_stats(airport, ns, es) ==
    LET inscope(n) == airport = "NULL" \/ n.props.airport = airport
        count(label) == Cardinality({ n \in ns : n.label = label /\ inscope(n) })
    IN  [ total_nodes |-> Cardinality({ n \in ns : inscope(n) }),
          total_connections |->
              BagCardinality([ e \in { x \in DOMAIN es : inscope(NodeOf(x.from, ns)) }
                               |-> es[e] ]),
          nodes_by_type |-> [ l \in { k \in Labels : count(k) > 0 } |-> count(l) ] ]

cli_stats(airport) ==
    /\ res' = [ op |-> "get_graph_stats", airport |-> airport,
                stats |-> get_graph_stats(airport, nodes, edges) ]
    /\ UNCHANGED <<nodes, edges, constraints, schema_done, validation>>

----------------------------------------------------------------------------
(* tools/validation_tools.py: validate_graph_structure.  A finding stands  *)
(* for the message the code appends: its kind is the message's wording,    *)
(* subject, type and count are the values the f-string puts into it.       *)

Finding(kind, subject, type, count) ==
    [ kind |-> kind, subject |-> subject, type |-> type, count |-> count ]

\* the rows of a listing
Rows(listing) == { listing[i] : i \in 1..Len(listing) }

\* how many rows of the connection listing satisfy P
RECURSIVE Weight(_, _)
Weight(S, B) ==
    IF S = {} THEN 0
    ELSE LET r == CHOOSE x \in S : TRUE IN B[r] + Weight(S \ {r}, B)

\* [c for c in connections if c["from_id"] == id or c["to_id"] == id]
ConnectionsOf(id, connections) ==
    { c \in DOMAIN connections : c.from_id = id \/ c.to_id = id }

\* {n["id"]: n["type"] for n in nodes}: a later row replaces an earlier one
NodeTypes(listing) ==
    [ id \in { r.id : r \in Rows(listing) } |->
        listing[CHOOSE i \in 1..Len(listing) :
                    /\ listing[i].id = id
                    /\ \A j \in (i + 1)..Len(listing) : listing[j].id # id].type ]

\* node_types.get(id)
TypeOf(id, node_types) ==
    IF id \in DOMAIN node_types THEN node_types[id] ELSE "None"

\* no message appended for a row
NoFinding == Finding("", "", "", 0)

\* the messages appended in a loop over the listing, made[i] being what the
\* i-th row appends
Findings(made) ==
    LET hits == { i \in 1..Len(made) : made[i] # NoFinding }
    IN  [ f \in { made[i] : i \in hits } |->
            Cardinality({ i \in hits : made[i] = f }) ]

\* a check 1 that reports every listed node, connected or not
OrphanFindings_all(listing, connections) ==
    SetToBag({ Finding("Orphan node (no connections)", o,
                       TypeOf(o, NodeTypes(listing)), 0) :
                 o \in { r.id : r \in Rows(listing) } })

\* check 1: node_ids - connected_nodes
OrphanFindings(listing, connections) ==
    LET connected_nodes == { c.from_id : c \in DOMAIN connections }
                             \cup { c.to_id : c \in DOMAIN connections }
        node_ids        == { r.id : r \in Rows(listing) }
        orphan_nodes    == node_ids \ connected_nodes
    IN  SetToBag({ Finding("Orphan node (no connections)", o,
                           TypeOf(o, NodeTypes(listing)), 0) :
                     o \in orphan_nodes })

\* a check 2 that warns of an even count
RunwayEndFindings_even(listing) ==
    LET runway_ends == { i \in 1..Len(listing) : listing[i].type = "RunwayEnd" }
    IN  IF Cardinality(runway_ends) % 2 = 0
        THEN SetToBag({ Finding("Odd number of runway ends", "", "",
                                Cardinality(runway_ends)) })
        ELSE EmptyBag

\* check 2: len(runway_ends) % 2 != 0
RunwayEndFindings(listing) ==
    LET runway_ends == { i \in 1..Len(listing) : listing[i].type = "RunwayEnd" }
    IN  IF Cardinality(runway_ends) % 2 # 0
        THEN SetToBag({ Finding("Odd number of runway ends", "", "",
                                Cardinality(runway_ends)) })
        ELSE EmptyBag

\* check 3
HoldShortFindings(listing, connections) ==
    LET node_types == NodeTypes(listing)
        connects_to_runway(hs) ==
            \E c \in ConnectionsOf(hs.id, connections) :
                \/ TypeOf(c.to_id, node_types) = "RunwayEnd"
                \/ TypeOf(c.from_id, node_types) = "RunwayEnd"
    IN  Findings([ i \in 1..Len(listing) |->
                     IF /\ listing[i].type = "HoldShort"
                        /\ ~connects_to_runway(listing[i])
                     THEN Finding("Hold short doesn't connect to any runway end",
                                  listing[i].name, "", 0)
                     ELSE NoFinding ])

\* a check 4 that counts the distinct nodes at the other end
TaxiwayFindings_neighbours(listing, connections) ==
    LET len(twy) == Cardinality(
                      { IF c.from_id = twy.id THEN c.to_id ELSE c.from_id :
                          c \in ConnectionsOf(twy.id, connections) })
    IN  Findings([ i \in 1..Len(listing) |->
                     IF /\ listing[i].type = "TaxiwayIntersection"
                        /\ len(listing[i]) < 2
                     THEN Finding("Taxiway intersection has only",
                                  listing[i].name, "", len(listing[i]))
                     ELSE NoFinding ])

\* check 4
TaxiwayFindings(listing, connections) ==
    LET len(twy) == Weight(ConnectionsOf(twy.id, connections), connections)
    IN  Findings([ i \in 1..Len(listing) |->
                     IF /\ listing[i].type = "TaxiwayIntersection"
                        /\ len(listing[i]) < 2
                     THEN Finding("Taxiway intersection has only",
                                  listing[i].name, "", len(listing[i]))
                     ELSE NoFinding ])

\* check 5
LocationFindings(listing, connections) ==
    LET len(loc) == Weight(ConnectionsOf(loc.id, connections), connections)
    IN  Findings([ i \in 1..Len(listing) |->
                     IF /\ listing[i].type \in { "FBO", "Ramp" }
                        /\ len(listing[i]) = 0
                     THEN Finding("has no connections", listing[i].name,
                                  listing[i].type, 0)
                     ELSE NoFinding ])

\* check 6: one finding per listed connection and missing end
DanglingFindings(listing, connections) ==
    LET node_ids == { r.id : r \in Rows(listing) }
        missing  == ({ c.from_id : c \in DOMAIN connections }
                       \cup { c.to_id : c \in DOMAIN connections }) \ node_ids
    IN  [ f \in { Finding("Connection references non-existent node", id, "", 0) :
                    id \in missing } |->
            Weight({ c \in DOMAIN connections : c.from_id = f.subject },
                   connections)
              + Weight({ c \in DOMAIN connections : c.to_id = f.subject },
                       connections) ]

\* check 7
SizeFindings(stats) ==
    (IF stats.total_nodes < 5
     THEN SetToBag({ Finding("Graph seems incomplete: nodes", "", "",
                             stats.total_nodes) })
     ELSE EmptyBag)
    (+)
    (IF stats.total_connections < 5
     THEN SetToBag({ Finding("Graph seems incomplete: connections", "", "",
                             stats.total_connections) })
     ELSE EmptyBag)

\* the issues and warnings the checks collect from the three reads
validation_report(listing, connections, stats) ==
    [ issues   |-> OrphanFindings(listing, connections)
                     (+) LocationFindings(listing, connections)
                     (+) DanglingFindings(listing, connections),
      warnings |-> RunwayEndFindings(listing)
                     (+) HoldShortFindings(listing, connections)
                     (+) TaxiwayFindings(listing, connections)
                     (+) SizeFindings(stats) ]

\* a validation that deletes what it has read
validate_graph_structure_clearing(args) ==
    LET airport == args.airport IN
    /\ \E listing \in GET_ALL_NODES_QUERY(airport, nodes) :
           LET connections == GET_ALL_CONNECTIONS_QUERY(airport, nodes, edges)
               stats       == get_graph_stats(airport, nodes, edges)
               report      == validation_report(listing, connections, stats)
           IN  res' = [ op |-> "validate_graph_structure", args |-> args,
                        is_error |-> FALSE,
                        issues |-> report.issues,
                        warnings |-> report.warnings,
                        total_nodes |-> stats.total_nodes,
                        total_connections |-> stats.total_connections ]
    /\ nodes' = { n \in nodes : n.props.airport # airport }
    /\ edges' = CLEAR_AIRPORT_QUERY(airport, nodes, edges).edges
    /\ UNCHANGED <<constraints, schema_done, validation>>

validate_graph_structure(args) ==
    LET airport == args.airport IN
    /\ \E listing \in GET_ALL_NODES_QUERY(airport, nodes) :
           LET connections == GET_ALL_CONNECTIONS_QUERY(airport, nodes, edges)
               stats       == get_graph_stats(airport, nodes, edges)
               report      == validation_report(listing, connections, stats)
           IN  res' = [ op |-> "validate_graph_structure", args |-> args,
                        is_error |-> FALSE,
                        issues |-> report.issues,
                        warnings |-> report.warnings,
                        total_nodes |-> stats.total_nodes,
                        total_connections |-> stats.total_connections ]
    /\ UNCHANGED <<nodes, edges, constraints, schema_done, validation>>

\* The same call step by step, as it runs beside a producer: each of the
\* three reads opens a session of its own, and other calls may reach the
\* store between them.

\* nodes = get_all_nodes(airport)
validate_read_nodes(args) ==
    /\ validation.pc = "idle"
    /\ \E listing \in GET_ALL_NODES_QUERY(args.airport, nodes) :
           validation' = [ pc |-> "nodes", args |-> args, listing |-> listing ]
    /\ UNCHANGED <<nodes, edges, constraints, schema_done, res>>

\* connections = get_all_connections(airport)
validate_read_connections ==
    /\ validation.pc = "nodes"
    /\ validation' =
           [ pc |-> "connections", args |-> validation.args,
             listing |-> validation.listing,
             connections |-> GET_ALL_CONNECTIONS_QUERY(validation.args.airport,
                                                       nodes, edges) ]
    /\ UNCHANGED <<nodes, edges, constraints, schema_done, res>>

\* stats = get_graph_stats(airport), then the checks and the result
validate_report ==
    /\ validation.pc = "connections"
    /\ LET stats  == get_graph_stats(validation.args.airport, nodes, edges)
           report == validation_report(validation.listing,
                                       validation.connections, stats)
       IN  res' = [ op |-> "validate_graph_structure",
                    args |-> validation.args,
                    is_error |-> FALSE,
                    issues |-> report.issues,
                    warnings |-> report.warnings,
                    total_nodes |-> stats.total_nodes,
                    total_connections |-> stats.total_connections ]
    /\ validation' = [ pc |-> "idle" ]
    /\ UNCHANGED <<nodes, edges, constraints, schema_done>>

----------------------------------------------------------------------------
(* The producer's inputs *)

Ids == { "n1", "n2" }

Airports == { "KAAA", "KBBB" }

AirportFilters == Airports \cup { "NULL" }

Common(t, id, airport, name) ==
    [ node_type |-> t, airport |-> airport, id |-> id, name |-> name,
      x |-> 10, y |-> 20 ]

\* f with the field k set to v
With(f, k, v) ==
    [ j \in DOMAIN f \cup {k} |-> IF j = k THEN v ELSE f[j] ]

FullNodeArgs(id, airport) ==
    { With(With(Common("runway_end", id, airport, "27"),
                "heading", 270), "runway_id", "9_27"),
      With(Common("taxiway_intersection", id, airport, "A"),
           "taxiways", << "A", "B" >>),
      With(With(Common("hold_short", id, airport, "B"),
                "runway", "27"), "taxiway", "A"),
      Common("fbo", id, airport, "FBO"),
      Common("terminal", id, airport, "Terminal"),
      Common("ramp", id, airport, "Main Ramp") }

\* calls that leave out a field their node type needs, or name no known type
PartialNodeArgs ==
    { With(Common("runway_end", "n1", "KAAA", "27"), "heading", 270),
      With(Common("runway_end", "n1", "KAAA", "27"), "runway_id", "9_27"),
      Common("taxiway_intersection", "n1", "KAAA", "A"),
      With(Common("hold_short", "n1", "KAAA", "B"), "runway", "27"),
      With(Common("hold_short", "n1", "KAAA", "B"), "taxiway", "A"),
      Common("gate", "n1", "KAAA", "A") }

NodeArgs ==
    UNION { FullNodeArgs(id, a) : <<id, a>> \in Ids \X Airports }
      \cup PartialNodeArgs

----------------------------------------------------------------------------
(* The node store on its own: schema, node creation, listing, clearing *)

Init ==
    /\ nodes = {}
    /\ edges = EmptyBag
    /\ constraints = {}
    /\ schema_done = FALSE
    /\ res = [ op |-> "none" ]
    /\ validation = [ pc |-> "idle" ]

DoInitSchema == init_schema

DoCreateNode ==
    \E args \in NodeArgs :
        /\ Cardinality(nodes) < MaxNodes
        /\ create_node(args)

DoGetAllNodes == \E a \in AirportFilters : get_all_nodes(a)

DoClear == \E a \in AirportFilters : clear_database(a)

NextNodes ==
    \/ DoInitSchema
    \/ DoCreateNode
    \/ DoGetAllNodes
    \/ DoClear

SpecNodes == Init /\ [][NextNodes]_vars

----------------------------------------------------------------------------
(* The whole store: runway ends and a ramp, connections, clearing.  The    *)
(* store starts empty with the schema initialised, as process_diagram      *)
(* leaves it before the producer's first call.                             *)

InitReady ==
    /\ nodes = {}
    /\ edges = EmptyBag
    /\ constraints = init_schema_loop(1, {}, {}).constraints
    /\ schema_done = TRUE
    /\ res = [ op |-> "none" ]
    /\ validation = [ pc |-> "idle" ]

StoreNodeArgs ==
    UNION { { a \in FullNodeArgs(id, ap) : a.node_type = "runway_end" } :
            <<id, ap>> \in Ids \X Airports }
      \cup { a \in FullNodeArgs("n2", "KAAA") : a.node_type = "ramp" }

\* requires_hold and bidirectional are optional arguments
ConnOptions ==
    { << >>, [ requires_hold |-> TRUE, bidirectional |-> TRUE ] }

ConnRequired(from_id, to_id, via, distance, direction) ==
    [ from_id |-> from_id, to_id |-> to_id, via |-> via,
      distance |-> distance, direction |-> direction ]

\* f extended by the fields of g
Merge(f, g) ==
    [ j \in DOMAIN f \cup DOMAIN g |-> IF j \in DOMAIN g THEN g[j] ELSE f[j] ]

\* two-way requests in every direction, one-way requests in two of them,
\* and one request whose direction is no member of Direction
ConnArgs ==
    { Merge(ConnRequired(f, t, "A", 3, d), o) :
        <<f, t, d, o>> \in Ids \X Ids \X Direction \X ConnOptions }
      \cup { Merge(ConnRequired(f, t, "B", 2, d), [ bidirectional |-> FALSE ]) :
               <<f, t, d>> \in Ids \X Ids \X { "N", "SW" } }
      \cup { ConnRequired("n1", "n2", "A", 3, "UP") }

DoCreateStoreNode ==
    \E args \in StoreNodeArgs :
        /\ Cardinality(nodes) < MaxNodes
        /\ create_node(args)

DoCreateConnection ==
    \E args \in ConnArgs :
        /\ BagCardinality(edges) < MaxEdges
        /\ create_connection(args)

Next ==
    \/ DoCreateStoreNode
    \/ DoCreateConnection
    \/ DoClear

Spec == InitReady /\ [][Next]_vars

----------------------------------------------------------------------------
(* The store under a session that may fail, and process_diagram's start *)

DoCreateConnectionRaising ==
    \E args \in ConnArgs, failing \in { 1, 2 } :
        /\ BagCardinality(edges) < MaxEdges
        /\ create_connection_raising(args, failing)

DoProcessDiagram ==
    \E image_exists \in BOOLEAN, airport \in Airports,
       clear_existing \in BOOLEAN, reachable \in BOOLEAN :
        process_diagram(image_exists, airport, clear_existing, reachable)

NextSession ==
    \/ DoCreateStoreNode
    \/ DoCreateConnection
    \/ DoCreateConnectionRaising
    \/ DoProcessDiagram

SpecSession == InitReady /\ [][NextSession]_vars

----------------------------------------------------------------------------
(* A producer that asks for two-way connections only, and clears *)

\* requests with bidirectional = true, given or by default
BidirectionalArgs ==
    { Merge(ConnRequired(f, t, "A", 3, d), o) :
        <<f, t, d, o>> \in Ids \X Ids \X { "N", "SE" } \X ConnOptions }

DoCreateBidirectional ==
    \E args \in BidirectionalArgs :
        /\ BagCardinality(edges) < BidiMaxEdges
        /\ create_connection(args)

NextBidirectional ==
    \/ DoCreateStoreNode
    \/ DoCreateBidirectional
    \/ DoClear

SpecBidirectional == InitReady /\ [][NextBidirectional]_vars

----------------------------------------------------------------------------
(* Path finding over a graph the producer has built *)

PathIds == { "n1", "n2", "n3" }

PathName(id) == IF id = "n1" THEN "09" ELSE IF id = "n2" THEN "27" ELSE "A"

PathPlaces ==
    { <<"n1", "KAAA">>, <<"n2", "KAAA">>, <<"n2", "KBBB">>, <<"n3", "KAAA">> }

PathNodeArgs ==
    { With(With(Common("runway_end", pl[1], pl[2], PathName(pl[1])),
                "heading", 270), "runway_id", "9_27") :
        pl \in PathPlaces }

\* one-way connections between different ids; those towards the higher id
\* run on taxiway A, the others on B and cross a runway
PathConnArgs ==
    { Merge(ConnRequired(f, t, IF Rank(PathName(f)) < Rank(PathName(t))
                               THEN "A" ELSE "B", 3, "E"),
            [ requires_hold |-> Rank(PathName(f)) > Rank(PathName(t)),
              bidirectional |-> FALSE ]) :
        <<f, t>> \in { q \in PathIds \X PathIds : q[1] # q[2] } }

PathQueries ==
    { [ airport |-> "KAAA", from_id |-> q[1], to_id |-> q[2] ] :
        q \in { <<"n1", "n1">>, <<"n1", "n2">>, <<"n1", "n3">>,
                <<"n2", "n1">> } }

DoCreatePathNode ==
    \E args \in PathNodeArgs :
        /\ Cardinality(nodes) < PathMaxNodes
        /\ create_node(args)

DoCreatePathConnection ==
    \E args \in PathConnArgs :
        /\ BagCardinality(edges) < PathMaxEdges
        /\ create_connection(args)

DoCheckPathExists == \E args \in PathQueries : check_path_exists(args)

NextPath ==
    \/ DoCreatePathNode
    \/ DoCreatePathConnection
    \/ DoCheckPathExists

SpecPath == InitReady /\ [][NextPath]_vars

----------------------------------------------------------------------------
(* Validation and statistics over the example airport KTST: the producer   *)
(* creates the two runway ends and the intersection, then the ramp and     *)
(* other nodes (one of them at another airport), connects them, and        *)
(* validates.                                                              *)

RunwayEndArgs(id, airport, name, heading) ==
    With(With(Common("runway_end", id, airport, name),
              "heading", heading), "runway_id", "09_27")

ValScript ==
    << RunwayEndArgs("KTST_rwy_09", "KTST", "09", 90),
       RunwayEndArgs("KTST_rwy_27", "KTST", "27", 270),
       With(Common("taxiway_intersection", "KTST_twy_A", "KTST", "A"),
            "taxiways", << "A" >>) >>

ValExtras ==
    { Common("ramp", "KTST_ramp_main", "KTST", "Main Ramp"),
      With(With(Common("hold_short", "KTST_hs_27", "KTST", "27 at A"),
                "runway", "27"), "taxiway", "A"),
      Common("fbo", "KTST_fbo", "KTST", "FBO"),
      RunwayEndArgs("KAAA_rwy_18", "KAAA", "18", 180) }

\* the three connections of the example, then one-way connections at the
\* hold-short position and to and from the other airport's runway end
ValConnArgs ==
    { ConnRequired("KTST_rwy_09", "KTST_twy_A", "A", 3, "E"),
      ConnRequired("KTST_twy_A", "KTST_ramp_main", "A", 3, "E"),
      Merge(ConnRequired("KTST_twy_A", "KTST_rwy_27", "A", 3, "E"),
            [ requires_hold |-> TRUE ]),
      Merge(ConnRequired("KTST_rwy_27", "KTST_hs_27", "A", 1, "W"),
            [ bidirectional |-> FALSE ]),
      Merge(ConnRequired("KTST_hs_27", "KTST_twy_A", "A", 1, "W"),
            [ bidirectional |-> FALSE ]),
      Merge(ConnRequired("KAAA_rwy_18", "KTST_twy_A", "B", 9, "N"),
            [ bidirectional |-> FALSE ]),
      Merge(ConnRequired("KTST_hs_27", "KAAA_rwy_18", "B", 9, "S"),
            [ bidirectional |-> FALSE ]) }

ValAirports == { "KTST", "KAAA" }

ValPathQuery ==
    [ airport |-> "KTST", from_id |-> "KTST_ramp_main",
      to_id |-> "KTST_rwy_27" ]

DoCreateValNode ==
    \E args \in IF Cardinality(nodes) < Len(ValScript)
                THEN { ValScript[Cardinality(nodes) + 1] }
                ELSE ValExtras :
        /\ Cardinality(nodes) < ValMaxNodes
        /\ create_node(args)

DoCreateValConnection ==
    \E args \in ValConnArgs :
        /\ BagCardinality(edges) < ValMaxEdges
        /\ create_connection(args)

DoValidate ==
    \E a \in ValAirports : validate_graph_structure([ airport |-> a ])

DoGraphStats == \E a \in ValAirports \cup { "NULL" } : cli_stats(a)

DoCheckValPath == check_path_exists(ValPathQuery)

NextValidate ==
    \/ DoCreateValNode
    \/ DoCreateValConnection
    \/ DoValidate
    \/ DoGraphStats
    \/ DoCheckValPath

SpecValidate == InitReady /\ [][NextValidate]_vars

----------------------------------------------------------------------------
(* A validation beside a producer at the one airport KTST: the producer    *)
(* creates a runway end, the intersection and the hold-short position and  *)
(* connects them, and deletes nothing.                                     *)

ConcNodeArgs ==
    { ValScript[2], ValScript[3] }
      \cup { a \in ValExtras : a.node_type = "hold_short" }

ConcConnArgs ==
    { a \in ValConnArgs :
        { a.from_id, a.to_id } \subseteq { n.id : n \in ConcNodeArgs } }

DoCreateConcNode ==
    \E args \in ConcNodeArgs :
        /\ Cardinality(nodes) < ConcMaxNodes
        /\ create_node(args)

DoCreateConcConnection ==
    \E args \in ConcConnArgs :
        /\ BagCardinality(edges) < ConcMaxEdges
        /\ create_connection(args)

DoValidateReadNodes == validate_read_nodes([ airport |-> "KTST" ])

DoValidateReadConnections == validate_read_connections

DoValidateReport == validate_report

NextConcurrent ==
    \/ DoCreateConcNode
    \/ DoCreateConcConnection
    \/ DoValidateReadNodes
    \/ DoValidateReadConnections
    \/ DoValidateReport

SpecConcurrent == InitReady /\ [][NextConcurrent]_vars

----------------------------------------------------------------------------
(* Properties of node creation and the schema *)

WithId(id, ns) == { n \in ns : n.props.id = id }

\* C1: once the schema is initialised, create_node with an id that some
\* stored node already bears (of any type, at any airport) returns an error
\* and leaves the stored nodes and edges as they were.
C1_DuplicateIdRejected ==
    [][ ( /\ schema_done
          /\ res'.op = "create_node"
          /\ WithId(res'.args.id, nodes) # {} )
        => ( res'.is_error /\ nodes' = nodes /\ edges' = edges ) ]_vars

\* C2: once init_schema has run, every one of the six labels carries the
\* uniqueness constraint and no two stored nodes of one label share an id.
C2_ConstraintPerLabel ==
    schema_done =>
        /\ constraints = Labels
        /\ \A l \in Labels : ~HasDuplicateIds(l, nodes)

\* C5: a listing returns, for every listed node that alone bears its id, a
\* row with that id that holds every attribute the node was stored with,
\* unchanged (heading, runway_id, taxiways, runway and taxiway included).
C5_ReadReturnsSuppliedAttributes ==
    res.op = "get_all_nodes" =>
        \A n \in nodes :
            ( /\ res.airport \in { "NULL", n.props.airport }
              /\ WithId(n.props.id, nodes) = {n} )
            => \E i \in 1..Len(res.rows) :
                   /\ res.rows[i].id = n.props.id
                   /\ \A k \in DOMAIN n.props :
                          /\ k \in DOMAIN res.rows[i]
                          /\ res.rows[i][k] = n.props[k]

----------------------------------------------------------------------------
(* Properties of connections and clearing *)

\* C3: create_connection with a from_id or to_id that no stored node bears
\* returns an error result.
C3_MissingEndpointFails ==
    ( /\ res.op = "create_connection"
      /\ \/ WithId(res.args.from_id, nodes) = {}
         \/ WithId(res.args.to_id, nodes) = {} )
    => res.is_error

CompassOpposite(d1, d2) ==
    {d1, d2} \in { {"N", "S"}, {"NE", "SW"}, {"E", "W"}, {"SE", "NW"} }

IdOf(nid, ns) == NodeOf(nid, ns).props.id

\* e is the edge a connection request asks for, from the node(s) bearing
\* from_id to the node(s) bearing to_id
IsForward(e, args, ns) ==
    /\ IdOf(e.from, ns) = args.from_id /\ IdOf(e.to, ns) = args.to_id
    /\ e.direction = args.direction
    /\ e.via = args.via /\ e.distance = args.distance
    /\ e.requires_hold = Get(args, "requires_hold", FALSE)

IsReverse(e, args, ns) ==
    /\ IdOf(e.from, ns) = args.to_id /\ IdOf(e.to, ns) = args.from_id
    /\ CompassOpposite(e.direction, args.direction)
    /\ e.via = args.via /\ e.distance = args.distance
    /\ e.requires_hold = Get(args, "requires_hold", FALSE)

Bool2Nat(b) == IF b THEN 1 ELSE 0

IsBidirectionalCall(r, ns) ==
    /\ r.op = "create_connection"
    /\ r.args.direction \in Direction
    /\ Get(r.args, "bidirectional", TRUE)
    /\ WithId(r.args.from_id, ns) # {}
    /\ WithId(r.args.to_id, ns) # {}

\* C4: a bidirectional create_connection between stored nodes adds, for the
\* node A bearing from_id and the node B bearing to_id, exactly the edge
\* A->B with the given direction and the edge B->A with the compass
\* opposite, both with the given via, distance and requires_hold, and no
\* other edge: two edges in all when each id names one node.
C4_BidirectionalAddsOppositePair ==
    [][ IsBidirectionalCall(res', nodes) =>
          /\ ~res'.is_error
          /\ \A e \in DOMAIN edges' :
                 CopiesIn(e, edges') - CopiesIn(e, edges)
                   = Bool2Nat(IsForward(e, res'.args, nodes))
                     + Bool2Nat(IsReverse(e, res'.args, nodes))
          /\ BagCardinality(edges') - BagCardinality(edges)
               = 2 * Cardinality(WithId(res'.args.from_id, nodes))
                   * Cardinality(WithId(res'.args.to_id, nodes)) ]_vars

C4_Witness ==
    /\ IsBidirectionalCall(res, nodes)
    /\ res.args.direction = "SE"
    /\ Get(res.args, "requires_hold", FALSE)
    /\ res.args.from_id # res.args.to_id
    /\ Cardinality(nodes) = 2
    /\ BagCardinality(edges) = 2
    /\ \E e1, e2 \in DOMAIN edges :
           /\ e1.direction = "SE" /\ e2.direction = "NW"
           /\ e1.from = e2.to /\ e1.to = e2.from
           /\ e1.requires_hold /\ e2.requires_hold

\* C6: clear_database(airport) leaves no node of that airport and no edge
\* at such a node, and every other airport's listings of nodes and of
\* edges are after the clear what they were before; clear_database() leaves
\* no node and no edge at all.
C6_ClearLeavesOtherAirports ==
    [][ res'.op = "clear_database" =>
          IF res'.airport = "NULL"
          THEN nodes' = {} /\ edges' = EmptyBag
          ELSE /\ \A n \in nodes' : n.props.airport # res'.airport
               /\ \A e \in DOMAIN edges' :
                      /\ NodeOf(e.from, nodes).props.airport # res'.airport
                      /\ NodeOf(e.to, nodes).props.airport # res'.airport
               /\ \A X \in Airports \ { res'.airport } :
                      /\ GET_ALL_NODES_QUERY(X, nodes')
                           = GET_ALL_NODES_QUERY(X, nodes)
                      /\ GET_ALL_CONNECTIONS_QUERY(X, nodes', edges')
                           = GET_ALL_CONNECTIONS_QUERY(X, nodes, edges) ]_vars

----------------------------------------------------------------------------
(* Properties of path finding *)

Starts(args) ==
    { n.nid : n \in { m \in nodes : /\ m.props.id = args.from_id
                                    /\ m.props.airport = args.airport } }

Ends(args) ==
    { n.nid : n \in { m \in nodes : /\ m.props.id = args.to_id
                                    /\ m.props.airport = args.airport } }

\* the nodes within k edges of S, an edge counting in both directions
RECURSIVE ReachWithin(_, _, _)
ReachWithin(S, k, es) ==
    IF k = 0 THEN S
    ELSE LET R == ReachWithin(S, k - 1, es)
         IN  R \cup { e.to : e \in { x \in DOMAIN es : x.from \in R } }
               \cup { e.from : e \in { x \in DOMAIN es : x.to \in R } }

Joins(e, u, v) == {e.from, e.to} = {u, v}

IsStoredPath(p) ==
    /\ Len(p.path_nodes) = Len(p.rels) + 1
    /\ \A i \in 1..Len(p.rels) :
           /\ p.rels[i] \in DOMAIN edges
           /\ Joins(p.rels[i], p.path_nodes[i], p.path_nodes[i + 1])

C8_PathStaysInAirport ==
    ( /\ res.op = "check_path_exists" /\ res.found
      /\ \A n \in nodes : WithId(n.props.id, nodes) = {n} ) =>
        \A i \in 1..Len(res.path.path_nodes) :
            NodeOf(res.path.path_nodes[i], nodes).props.airport
              = res.args.airport

\* C9: a returned path lists one name per node, and one via and one hold
\* flag per edge, so one more name than vias; the i-th via and flag are
\* those of a stored edge between the i-th and the next node; and when a
\* stored edge joins the two end nodes of the path, the result has two
\* names, one via and one flag, which are that edge's when it is the only
\* edge between them.
C9_PathListsMatchEdges ==
    ( res.op = "check_path_exists" /\ res.found ) =>
        LET p  == res.path
            r  == res.record
            direct == { e \in DOMAIN edges :
                          Joins(e, p.path_nodes[1], Last(p.path_nodes)) }
        IN  /\ Len(r.node_names) = Len(r.via_list) + 1
            /\ Len(r.via_list) = Len(r.holds)
            /\ Len(p.path_nodes) = Len(r.node_names)
            /\ \A i \in 1..Len(r.node_names) :
                   r.node_names[i] = NodeOf(p.path_nodes[i], nodes).props.name
            /\ \A i \in 1..Len(r.via_list) :
                   \E e \in DOMAIN edges :
                       /\ Joins(e, p.path_nodes[i], p.path_nodes[i + 1])
                       /\ e.via = r.via_list[i]
                       /\ e.requires_hold = r.holds[i]
            /\ direct # {} =>
                   /\ Len(r.node_names) = 2
                   /\ Len(r.via_list) = 1
                   /\ Len(r.holds) = 1
                   /\ \A e \in direct :
                          direct = {e} =>
                              /\ r.via_list[1] = e.via
                              /\ r.holds[1] = e.requires_hold

C9_Witness ==
    /\ res.op = "check_path_exists"
    /\ res.found
    /\ Len(res.record.node_names) = 3
    /\ res.record.via_list[1] # res.record.via_list[2]
    /\ res.record.holds[1] # res.record.holds[2]

\* C10: when no node of the requested airport bears the start id, or none
\* bears the end id, or no route joins a start node to an end node,
\* check_path_exists answers "no path found" and not an error.
C10_NoPathIsNotAnError ==
    ( /\ res.op = "check_path_exists"
      /\ \/ Starts(res.args) = {}
         \/ Ends(res.args) = {}
         \/ \A s \in Starts(res.args) :
                Ends(res.args)
                  \cap ReachWithin({s}, Cardinality(nodes), edges) = {} )
    => ( ~res.is_error /\ ~res.found /\ res.text = "No path found" )

C10_Witness ==
    /\ res.op = "check_path_exists"
    /\ res.text = "No path found"
    /\ Starts(res.args) # {}
    /\ Ends(res.args) # {}
    /\ edges # EmptyBag

----------------------------------------------------------------------------
(* Properties of the validator *)

IsValidation == res.op = "validate_graph_structure"

\* the stored nodes of the validated airport
Validated == { n \in nodes : n.props.airport = res.args.airport }

\* the stored edges at node n, incoming or outgoing
Incident(n) == { e \in DOMAIN edges : e.from = n.nid \/ e.to = n.nid }

\* their number, parallel edges counted one by one
IncidentCount(n) == Weight(Incident(n), edges)

\* no two stored nodes bear the same id
UniqueIds == \A n \in nodes : WithId(n.props.id, nodes) = {n}

Reported(findings, kind, subject) ==
    \E f \in DOMAIN findings : f.kind = kind /\ f.subject = subject

\* C11: the validator reports an orphan-node issue for a node of the
\* validated airport exactly when no stored edge comes into it or goes out
\* of it, and for an FBO or Ramp node without edges it reports the "has no
\* connections" issue as well.
\* Stated for stores in which no two nodes bear the same id.
C11_OrphanIffNoIncidentEdge ==
    ( IsValidation /\ UniqueIds ) =>
        \A n \in Validated :
            /\ Reported(res.issues, "Orphan node (no connections)", n.props.id)
                 <=> Incident(n) = {}
            /\ ( n.label \in { "FBO", "Ramp" } /\ Incident(n) = {} )
                 => Reported(res.issues, "has no connections", n.props.name)

\* C12: the validator reports no "references non-existent node" issue for
\* an id that a stored node bears (every edge of the store has both its end
\* nodes stored).
\* Stated for stores in which no two nodes bear the same id.
C12_NoDanglingIssueForStoredNode ==
    ( IsValidation /\ UniqueIds ) =>
        \A f \in DOMAIN res.issues :
            f.kind = "Connection references non-existent node"
              => WithId(f.subject, nodes) = {}

\* C14: the validator warns about a TaxiwayIntersection of the validated
\* airport exactly when fewer than two stored edges are incident to it.
\* Stated for stores in which no two nodes bear the same id.
C14_IntersectionWarningIffUnderTwo ==
    ( IsValidation /\ UniqueIds ) =>
        \A n \in Validated :
            n.label = "TaxiwayIntersection" =>
                ( Reported(res.warnings, "Taxiway intersection has only",
                           n.props.name)
                    <=> IncidentCount(n) < 2 )

\* the node at the other end of e, seen from n
OtherEnd(e, n) == NodeOf(IF e.from = n.nid THEN e.to ELSE e.from, nodes)

\* C15: the validator warns about a HoldShort node of the validated airport
\* exactly when none of its incident edges has a RunwayEnd node at the
\* other end.
\* Stated for stores in which no two nodes bear the same id.
C15_HoldShortWarningIffNoRunwayEnd ==
    ( IsValidation /\ UniqueIds ) =>
        \A n \in Validated :
            n.label = "HoldShort" =>
                ( Reported(res.warnings,
                           "Hold short doesn't connect to any runway end",
                           n.props.name)
                    <=> ~\E e \in Incident(n) :
                            OtherEnd(e, n).label = "RunwayEnd" )

\* C16: the validator gives the odd-runway-end warning exactly when the
\* validated airport has an odd number of RunwayEnd nodes, and then once,
\* with that number; the runway_id values play no part.
C16_OddRunwayEndWarning ==
    IsValidation =>
        LET count == Cardinality({ n \in Validated : n.label = "RunwayEnd" })
            odd   == { f \in DOMAIN res.warnings :
                         f.kind = "Odd number of runway ends" }
        IN  IF count % 2 = 1
            THEN /\ odd = { Finding("Odd number of runway ends", "", "", count) }
                 /\ \A f \in odd : res.warnings[f] = 1
            ELSE odd = {}

C16_Witness ==
    /\ IsValidation
    /\ Cardinality({ n \in nodes : n.label = "RunwayEnd" }) = 3
    /\ Cardinality({ n \in Validated : n.label = "RunwayEnd" }) = 1
    /\ Reported(res.warnings, "Odd number of runway ends", "")

\* every stored edge at a node of the validated airport joins two nodes of
\* that airport
EdgesStayInAirport ==
    \A n \in Validated : \A e \in Incident(n) : OtherEnd(e, n) \in Validated

\* the conditions the specification lists for a minimal well-formed graph
ListedConditions ==
    /\ Cardinality(Validated) >= 5
    /\ Weight({ e \in DOMAIN edges : NodeOf(e.from, nodes) \in Validated },
              edges) >= 5
    /\ \A n \in Validated : n.label \in { "FBO", "Ramp" } => Incident(n) # {}
    /\ Cardinality({ n \in Validated : n.label = "RunwayEnd" }) % 2 = 0
    /\ \A n \in Validated :
           n.label = "TaxiwayIntersection" => IncidentCount(n) >= 2

\* C13, as stated: a graph of one airport that meets the listed conditions
\* (at least 5 nodes, at least 5 edges, every FBO and Ramp connected, an
\* even number of RunwayEnds, every TaxiwayIntersection with 2 edges or
\* more) gets no issue from the validator.
C13_NoIssuesUnderListedConditions ==
    ( IsValidation /\ UniqueIds /\ EdgesStayInAirport /\ ListedConditions )
        => res.issues = EmptyBag

\* C13, amended: when moreover every node of the airport, of whatever type,
\* has an incident edge, the validator reports no issue, and no warning
\* other than those about hold-short positions.
C13_NoIssuesWhenAllNodesConnected ==
    ( /\ IsValidation /\ EdgesStayInAirport /\ ListedConditions
      /\ \A n \in Validated : Incident(n) # {} )
        => /\ res.issues = EmptyBag
           /\ \A f \in DOMAIN res.warnings :
                  f.kind = "Hold short doesn't connect to any runway end"

C13_Witness ==
    /\ IsValidation /\ EdgesStayInAirport /\ ListedConditions
    /\ \A n \in Validated : Incident(n) # {}
    /\ \E n \in Validated : n.label = "HoldShort"
    /\ res.issues = EmptyBag

----------------------------------------------------------------------------
(* The example airport KTST *)

\* what the example stores of a node, and of an edge
NodeFacts(n) == << n.props.id, n.label, n.props.airport, n.props.name >>

EdgeFacts(e) ==
    << IdOf(e.from, nodes), IdOf(e.to, nodes), e.via, e.direction,
       e.requires_hold >>

\* the store holds the four nodes and the three two-way connections of the
\* example, once each, and nothing else
KTSTStored ==
    /\ Cardinality(nodes) = 4
    /\ { NodeFacts(n) : n \in nodes }
         = { << "KTST_rwy_09", "RunwayEnd", "KTST", "09" >>,
             << "KTST_rwy_27", "RunwayEnd", "KTST", "27" >>,
             << "KTST_twy_A", "TaxiwayIntersection", "KTST", "A" >>,
             << "KTST_ramp_main", "Ramp", "KTST", "Main Ramp" >> }
    /\ BagCardinality(edges) = 6
    /\ { EdgeFacts(e) : e \in DOMAIN edges }
         = { << "KTST_rwy_09", "KTST_twy_A", "A", "E", FALSE >>,
             << "KTST_twy_A", "KTST_rwy_09", "A", "W", FALSE >>,
             << "KTST_twy_A", "KTST_ramp_main", "A", "E", FALSE >>,
             << "KTST_ramp_main", "KTST_twy_A", "A", "W", FALSE >>,
             << "KTST_twy_A", "KTST_rwy_27", "A", "E", TRUE >>,
             << "KTST_rwy_27", "KTST_twy_A", "A", "W", TRUE >> }

\* C17: on the example airport KTST, the path from the main ramp to runway
\* end 27 is found and lists the names Main Ramp, A, 27, two vias and two
\* hold flags of which exactly one is set; and validating KTST reports no
\* issue, and warnings only about an intersection's edge count or the node
\* count.
C17_ExampleKTST ==
    KTSTStored =>
        /\ ( res.op = "check_path_exists" /\ res.args = ValPathQuery ) =>
               /\ res.found /\ ~res.is_error
               /\ res.record.node_names = << "Main Ramp", "A", "27" >>
               /\ Len(res.record.via_list) = 2
               /\ Len(res.record.holds) = 2
               /\ res.holds = 1
               /\ Cardinality({ i \in 1..2 : res.record.holds[i] }) = 1
        /\ ( IsValidation /\ res.args.airport = "KTST" ) =>
               /\ res.issues = EmptyBag
               /\ \A f \in DOMAIN res.warnings :
                      f.kind \in { "Taxiway intersection has only",
                                   "Graph seems incomplete: nodes" }

C17_Witness ==
    /\ KTSTStored
    /\ res.op = "check_path_exists"
    /\ res.found
    /\ res.record.holds = << FALSE, TRUE >>

\* C18: a step of validate_graph_structure or of check_path_exists leaves
\* the stored nodes and edges exactly as they were.
C18_ValidatorReadsOnly ==
    [][ res'.op \in { "validate_graph_structure", "check_path_exists" }
          => ( nodes' = nodes /\ edges' = edges ) ]_vars

C18_Witness ==
    /\ IsValidation
    /\ res.issues # EmptyBag
    /\ res.warnings # EmptyBag
    /\ Cardinality(nodes) = ValMaxNodes
    /\ BagCardinality(edges) >= ValMaxEdges

----------------------------------------------------------------------------
(* Properties of node construction and of the statistics *)

\* a field that the node type of the call needs is absent from it
MissingRequired(args) ==
    \/ args.node_type = "runway_end"
         /\ ( "heading" \notin DOMAIN args \/ "runway_id" \notin DOMAIN args )
    \/ args.node_type = "taxiway_intersection"
         /\ "taxiways" \notin DOMAIN args
    \/ args.node_type = "hold_short"
         /\ ( "runway" \notin DOMAIN args \/ "taxiway" \notin DOMAIN args )

\* C19: a create_node call that lacks a field its node type requires
\* (heading or runway_id of a runway_end, taxiways of a
\* taxiway_intersection, runway or taxiway of a hold_short) returns an
\* error and stores nothing.
C19_MissingFieldRejected ==
    [][ ( res'.op = "create_node" /\ MissingRequired(res'.args) )
          => ( res'.is_error /\ nodes' = nodes /\ edges' = edges ) ]_vars

C19_Witness ==
    /\ res.op = "create_node"
    /\ res.args.node_type = "runway_end"
    /\ "heading" \in DOMAIN res.args
    /\ "runway_id" \notin DOMAIN res.args
    /\ res.is_error
    /\ nodes # {}
    /\ WithId(res.args.id, nodes) = {}

\* the stored nodes a filter selects ("NULL": all of them)
Matching(filter) ==
    { n \in nodes : filter = "NULL" \/ n.props.airport = filter }

\* C20: get_graph_stats returns as total_nodes the number of stored nodes
\* that match the filter, as total_connections the number of stored edges
\* that leave a matching node (all edges without a filter), and as
\* nodes_by_type the count of matching nodes for exactly the labels that
\* have one or more.
C20_StatsCountTheStore ==
    res.op = "get_graph_stats" =>
        LET m == Matching(res.airport)
            of(l) == { n \in m : n.label = l }
        IN  /\ res.stats.total_nodes = Cardinality(m)
            /\ res.stats.total_connections
                 = Weight({ e \in DOMAIN edges : NodeOf(e.from, nodes) \in m },
                          edges)
            /\ res.airport = "NULL" =>
                   res.stats.total_connections = BagCardinality(edges)
            /\ DOMAIN res.stats.nodes_by_type = { l \in Labels : of(l) # {} }
            /\ \A l \in DOMAIN res.stats.nodes_by_type :
                   res.stats.nodes_by_type[l] = Cardinality(of(l))

C20_Witness ==
    /\ res.op = "get_graph_stats"
    /\ res.airport = "KTST"
    /\ Cardinality(nodes) > res.stats.total_nodes
    /\ BagCardinality(edges) > res.stats.total_connections
    /\ res.stats.total_connections > 0
    /\ Cardinality(DOMAIN res.stats.nodes_by_type) = 3
    /\ res.stats.nodes_by_type["RunwayEnd"] = 2

----------------------------------------------------------------------------
(* Properties of the stored edges *)

\* the pairs of stored nodes a connection request matches
MatchedPairs(args) ==
    Cardinality(WithId(args.from_id, nodes))
      * Cardinality(WithId(args.to_id, nodes))

\* C21: a create_connection call whose edge is already stored succeeds and
\* adds one more copy of that edge, and of the opposite edge when the call
\* is bidirectional, so that the store holds one edge more per call (two
\* per bidirectional call) for each matched pair of nodes.
C21_RepeatedCallAddsParallelEdge ==
    [][ ( /\ res'.op = "create_connection"
          /\ res'.args.direction \in Direction
          /\ \E e \in DOMAIN edges : IsForward(e, res'.args, nodes) )
        => LET a   == res'.args
               two == Get(a, "bidirectional", TRUE)
           IN  /\ ~res'.is_error
               /\ \A e \in DOMAIN edges :
                      IsForward(e, a, nodes)
                        => CopiesIn(e, edges') = CopiesIn(e, edges) + 1
               /\ \A e \in DOMAIN edges :
                      ( two /\ IsReverse(e, a, nodes) )
                        => CopiesIn(e, edges') = CopiesIn(e, edges) + 1
               /\ BagCardinality(edges')
                    = BagCardinality(edges)
                        + (IF two THEN 2 ELSE 1) * MatchedPairs(a) ]_vars

C21_Witness ==
    /\ res.op = "create_connection"
    /\ ~res.is_error
    /\ ~Get(res.args, "bidirectional", TRUE)
    /\ UniqueIds
    /\ \E e \in DOMAIN edges :
           IsForward(e, res.args, nodes) /\ CopiesIn(e, edges) = 3

C23_EdgesWithinAirport ==
    \A e \in DOMAIN edges :
        NodeOf(e.from, nodes).props.airport = NodeOf(e.to, nodes).props.airport

\* C25: both end nodes of every stored edge are stored nodes.
C25_NoDanglingEdge ==
    \A e \in DOMAIN edges :
        /\ e.from \in { n.nid : n \in nodes }
        /\ e.to \in { n.nid : n \in nodes }

C25_Witness ==
    /\ res.op = "clear_database"
    /\ res.airport \in Airports
    /\ nodes # {}
    /\ edges # EmptyBag

\* C27: a create_connection call without a bidirectional argument stores
\* two edges per matched pair of nodes, as one with bidirectional = true
\* does; with bidirectional = false it stores one, from the from_id node to
\* the to_id node; and the stored edges carry requires_hold = false when
\* the argument is left out.
C27_ConnectionDefaults ==
    [][ ( /\ res'.op = "create_connection"
          /\ res'.args.direction \in Direction )
        => LET a    == res'.args
               two  == "bidirectional" \notin DOMAIN a \/ a.bidirectional
               hold == "requires_hold" \in DOMAIN a /\ a.requires_hold
               new  == { e \in DOMAIN edges' :
                           CopiesIn(e, edges') > CopiesIn(e, edges) }
           IN  /\ BagCardinality(edges') - BagCardinality(edges)
                    = (IF two THEN 2 ELSE 1) * MatchedPairs(a)
               /\ \A e \in new : e.requires_hold = hold
               /\ ~two => \A e \in new :
                              /\ IdOf(e.from, nodes) = a.from_id
                              /\ IdOf(e.to, nodes) = a.to_id ]_vars

C27_Witness ==
    /\ res.op = "create_connection"
    /\ DOMAIN res.args
         = { "from_id", "to_id", "via", "distance", "direction" }
    /\ res.args.from_id # res.args.to_id
    /\ UniqueIds
    /\ BagCardinality(edges) = 2
    /\ \A e \in DOMAIN edges : ~e.requires_hold

----------------------------------------------------------------------------
(* What the validator counts at an intersection *)

\* C28: for a TaxiwayIntersection whose edges all join it to other nodes of
\* the validated airport, the validator counts directed edges: joined to
\* one neighbour by an edge in each direction it gets no warning, joined by
\* one single edge it gets the warning, with the count 1.
\* Stated for stores in which no two nodes bear the same id.
C28_IntersectionCountsDirectedEdges ==
    ( IsValidation /\ UniqueIds ) =>
        \A n \in Validated :
            ( /\ n.label = "TaxiwayIntersection"
              /\ \A e \in Incident(n) : OtherEnd(e, n) \in Validated \ {n} )
            => /\ ( /\ IncidentCount(n) = 2
                    /\ \E e1, e2 \in Incident(n) :
                           /\ e1.from = n.nid /\ e2.to = n.nid
                           /\ e1.to = e2.from )
                    => ~Reported(res.warnings, "Taxiway intersection has only",
                                 n.props.name)
               /\ IncidentCount(n) = 1
                    => Finding("Taxiway intersection has only",
                               n.props.name, "", 1) \in DOMAIN res.warnings

C28_Witness ==
    /\ IsValidation
    /\ UniqueIds
    /\ \E n \in Validated :
           /\ n.label = "TaxiwayIntersection"
           /\ IncidentCount(n) = 2
           /\ Cardinality({ OtherEnd(e, n) : e \in Incident(n) }) = 1
           /\ \A e \in Incident(n) : OtherEnd(e, n) \in Validated \ {n}
           /\ ~Reported(res.warnings, "Taxiway intersection has only",
                        n.props.name)

----------------------------------------------------------------------------
(* Properties of calls that end with an exception *)

NewForward(args) ==
    { e \in DOMAIN edges' : /\ CopiesIn(e, edges') > CopiesIn(e, edges)
                            /\ IsForward(e, args, nodes) }

NewReverse(args) ==
    { e \in DOMAIN edges' : /\ CopiesIn(e, edges') > CopiesIn(e, edges)
                            /\ IsReverse(e, args, nodes) }

\* C24: a bidirectional create_connection call, however it ends, has added
\* both the forward and the reverse edge or neither of them, and a call
\* that returns an error has added no edge.
C24_BidirectionalAllOrNothing ==
    [][ ( /\ res'.op = "create_connection"
          /\ Get(res'.args, "bidirectional", TRUE) )
        => /\ (NewForward(res'.args) = {}) <=> (NewReverse(res'.args) = {})
           /\ res'.is_error => edges' = edges ]_vars

\* C29: a process_diagram call that raises FileNotFoundError leaves the
\* stored nodes and edges as they were.
C29_MissingImageKeepsStore ==
    [][ ( /\ res'.op = "process_diagram"
          /\ res'.raised = "FileNotFoundError" )
        => ( nodes' = nodes /\ edges' = edges ) ]_vars

----------------------------------------------------------------------------
(* Symmetry of the edges a two-way producer stores *)

\* r is the edge opposite to e: between the same two nodes the other way,
\* in the compass-opposite direction, with the same attributes
IsConverse(r, e) ==
    /\ r.from = e.to /\ r.to = e.from
    /\ CompassOpposite(r.direction, e.direction)
    /\ r.via = e.via /\ r.distance = e.distance
    /\ r.requires_hold = e.requires_hold

\* C26: when every connection is requested with bidirectional = true, then
\* after any sequence of create_node, create_connection and clear_database
\* calls each stored edge has its opposite edge stored, in as many copies.
C26_EdgesSymmetric ==
    \A e \in DOMAIN edges :
        \E r \in DOMAIN edges :
            IsConverse(r, e) /\ CopiesIn(r, edges) = CopiesIn(e, edges)

C26_Witness ==
    /\ res.op = "clear_database"
    /\ res.airport \in Airports
    /\ \E n \in nodes : n.props.airport # res.airport
    /\ \E e \in DOMAIN edges : e.requires_hold /\ CopiesIn(e, edges) = 2

----------------------------------------------------------------------------
(* A validation that runs beside the producer *)

\* C30: a validation that runs beside the producer's create_node and
\* create_connection calls reports no "references non-existent node" issue
\* and reports the totals of the node list and the edge list it checked.
\* Under SpecConcurrent all nodes are at the validated airport and nothing
\* is deleted, so both end nodes of every edge were stored at that airport
\* when the edge was read.
C30_ValidatesOneSnapshot ==
    [][ ( validation.pc = "connections" /\ validation'.pc = "idle" )
        => /\ \A f \in DOMAIN res'.issues :
                  f.kind # "Connection references non-existent node"
           /\ res'.total_nodes = Len(validation.listing)
           /\ res'.total_connections
                = BagCardinality(validation.connections) ]_vars

====
